---- MODULE Spec2Model ----
(***************************************************************************)
(* Model of src/app.py: the e-mail guessing pipeline.                      *)
(*                                                                         *)
(*   generate_email_formats  -> five candidate addresses                   *)
(*   extract_domain          -> email.split("@")[1]                        *)
(*   is_domain_valid         -> MX lookup, three DNS exceptions caught     *)
(*   is_email_valid          -> MX lookup, connect, HELO, MAIL, RCPT, QUIT *)
(*                              inside one try / except Exception          *)
(*   validate_email_for_formats -> first candidate passing both checks     *)
(*   validate_emails         -> one result row per input row               *)
(*                                                                         *)
(* A string is a sequence of character tokens.  The DNS resolver and the   *)
(* SMTP server are the environment: every call draws its outcome with \E.  *)
(***************************************************************************)
EXTENDS Integers, Sequences, FiniteSets, TLC

\* ------------------------------------------------------------------ bounds
MaxRows == 2

\* --------------------------------------------------------- program constants
Accepted == 250

\* ------------------------------------------------------------------ strings
At == "@"
NonAscii == "U+00E9"
None == <<"None">>

IsAscii(c) == c # NonAscii

IsAsciiStr(s) == \A n \in 1..Len(s) : IsAscii(s[n])

LowerChar(c) == IF c = "J" THEN "j" ELSE c

lower(s) == [n \in 1..Len(s) |-> LowerChar(s[n])]

RECURSIVE split(_, _)
split(s, sep) ==
    IF s = <<>> THEN << <<>> >>
    ELSE LET r == split(Tail(s), sep)
         IN  IF Head(s) = sep
             THEN << <<>> >> \o r
             ELSE << <<Head(s)>> \o Head(r) >> \o Tail(r)

\* ------------------------------------------------------------------- inputs
Persons ==
    { [first |-> <<"J">>,      last |-> <<"d">>, domain |-> <<"x">>],
      [first |-> <<>>,         last |-> <<"d">>, domain |-> <<"x">>],
      [first |-> <<NonAscii>>, last |-> <<>>,    domain |-> <<"x", "@", "y">>] }

Frames == UNION { [1..n -> Persons] : n \in 0..MaxRows }

DnsOutcomes == {"MX", "NoAnswer", "NXDOMAIN", "LifetimeTimeout", "NoNameservers"}

RcptCodes == {250, 251, 550}

\* ------------------------------------------------------------ pure functions
extract_domain(email) ==
    LET parts == split(email, At)
    IN  IF Len(parts) >= 2 THEN parts[2] ELSE None

DnsCaught(o) == o \in {"NoAnswer", "NXDOMAIN", "LifetimeTimeout"}

\* first[0] raises IndexError on an empty first: no list is returned (<<>>)
generate_email_formats(first, last, domain) ==
    IF first = <<>> THEN <<>>
    ELSE << first \o <<".">> \o last \o <<At>> \o domain,
            first \o <<"_">> \o last \o <<At>> \o domain,
            <<first[1]>> \o last \o <<At>> \o domain,
            first \o <<At>> \o domain,
            last \o <<At>> \o domain >>

Truthy(s) == s # None /\ s # <<>>

RcptAcceptedLax(c) == c \in Accepted..(Accepted + 1)

RcptAccepted(c) == c = Accepted

AfterProbeNoStop(valid) == "next"

AfterProbe(valid) == IF valid THEN "return" ELSE "next"

RowResultCopyPaste(email, is_valid, domain) ==
    IF Truthy(email) /\ is_valid
    THEN <<lower(email), domain, TRUE, TRUE>>
    ELSE <<None, domain, TRUE, TRUE>>

RowResult(email, is_valid, domain) ==
    IF Truthy(email) /\ is_valid
    THEN <<lower(email), domain, TRUE, TRUE>>
    ELSE <<None, domain, FALSE, FALSE>>

\* -------------------------------------------------------------------- state
VARIABLES
    rows,         \* df: the input rows
    k,            \* index of the row being processed
    results,      \* validate_emails' results list
    pc,           \* position in the code
    formats,      \* email_formats of the current row
    i,            \* index of the candidate being checked
    email,        \* loop variable of validate_email_for_formats
    domain_name,  \* extract_domain(email)
    dns,          \* outcome of the MX lookup in is_domain_valid
    domValid,     \* return value of is_domain_valid
    cmds,         \* steps of the current SMTP session, in order
    code,         \* RCPT reply code, 0 before a reply was received
    sock,         \* server.sock is open
    open,         \* number of SMTP sockets open in the process
    failedAt,     \* step of is_email_valid that raised, or "none"
    probeRes,     \* return value of is_email_valid
    ret,          \* return value of validate_email_for_formats
    err,          \* exception propagating out of validate_emails
    log           \* checks started and finished for the current row

vars == <<rows, k, results, pc, formats, i, email, domain_name, dns, domValid,
          cmds, code, sock, open, failedAt, probeRes, ret, err, log>>

NoErr == [type |-> "none", by |-> "none"]

Ev(op, c) == [op |-> op, cand |-> c]

Init ==
    /\ rows \in Frames
    /\ k = 1
    /\ results = <<>>
    /\ pc = "loop"
    /\ formats = <<>>
    /\ i = 0
    /\ email = None
    /\ domain_name = None
    /\ dns = "none"
    /\ domValid = FALSE
    /\ cmds = <<>>
    /\ code = 0
    /\ sock = FALSE
    /\ open = 0
    /\ failedAt = "none"
    /\ probeRes = FALSE
    /\ ret = <<None, FALSE>>
    /\ err = NoErr
    /\ log = <<>>

probeVars == <<cmds, code, sock, open, failedAt, probeRes>>
candVars == <<email, domain_name, dns, domValid>>

\* ---------------------------------------------------------- validate_emails
\* for index, row in df.iterrows(): ... validate_email_for_formats(...)
NextRow ==
    /\ pc = "loop"
    /\ k <= Len(rows)
    /\ pc' = "gen"
    /\ log' = <<>>
    /\ ret' = <<None, FALSE>>
    /\ UNCHANGED <<rows, k, results, formats, i, err>>
    /\ UNCHANGED candVars
    /\ UNCHANGED probeVars

\* return pd.DataFrame(results, ...)
ReturnFrame ==
    /\ pc = "loop"
    /\ k > Len(rows)
    /\ pc' = "done"
    /\ UNCHANGED <<rows, k, results, formats, i, ret, err, log>>
    /\ UNCHANGED candVars
    /\ UNCHANGED probeVars

\* results.append(...)
AppendResult ==
    /\ pc = "append"
    /\ results' = Append(results, RowResult(ret[1], ret[2], rows[k].domain))
    /\ k' = k + 1
    /\ pc' = "loop"
    /\ formats' = <<>>
    /\ i' = 0
    /\ email' = None
    /\ domain_name' = None
    /\ dns' = "none"
    /\ domValid' = FALSE
    /\ cmds' = <<>>
    /\ code' = 0
    /\ failedAt' = "none"
    /\ probeRes' = FALSE
    /\ UNCHANGED <<rows, sock, open, ret, err, log>>

\* ----------------------------------------------- validate_email_for_formats
\* email_formats = generate_email_formats(first, last, domain)
GenerateFormats ==
    /\ pc = "gen"
    /\ LET p == rows[k]
           f == generate_email_formats(p.first, p.last, p.domain)
       IN  IF f = <<>>
           THEN /\ pc' = "raised"
                /\ err' = [type |-> "IndexError", by |-> "generate_email_formats"]
                /\ UNCHANGED <<formats, i>>
           ELSE /\ pc' = "for"
                /\ formats' = f
                /\ i' = 1
                /\ err' = err
    /\ UNCHANGED <<rows, k, results, ret, log>>
    /\ UNCHANGED candVars
    /\ UNCHANGED probeVars

\* for email in email_formats: domain_name = extract_domain(email)
NextCandidate ==
    /\ pc = "for"
    /\ i <= Len(formats)
    /\ email' = formats[i]
    /\ domain_name' = extract_domain(formats[i])
    /\ dns' = "none"
    /\ domValid' = FALSE
    /\ cmds' = <<>>
    /\ code' = 0
    /\ failedAt' = "none"
    /\ probeRes' = FALSE
    /\ IF Truthy(extract_domain(formats[i]))
       THEN pc' = "domain" /\ i' = i
       ELSE pc' = "for" /\ i' = i + 1
    /\ UNCHANGED <<rows, k, results, formats, sock, open, ret, err, log>>

\* return None, False
Exhausted ==
    /\ pc = "for"
    /\ i > Len(formats)
    /\ ret' = <<None, FALSE>>
    /\ pc' = "append"
    /\ UNCHANGED <<rows, k, results, formats, i, err, log>>
    /\ UNCHANGED candVars
    /\ UNCHANGED probeVars

\* is_domain_valid(domain_name)
is_domain_valid ==
    /\ pc = "domain"
    /\ \E o \in DnsOutcomes :
         /\ dns' = o
         /\ IF o = "MX"
            THEN /\ domValid' = TRUE
                 /\ pc' = "domain_ret"
                 /\ err' = err
                 /\ log' = log \o <<Ev("domain_start", i), Ev("domain_true", i)>>
            ELSE IF DnsCaught(o)
            THEN /\ domValid' = FALSE
                 /\ pc' = "domain_ret"
                 /\ err' = err
                 /\ log' = log \o <<Ev("domain_start", i), Ev("domain_false", i)>>
            ELSE /\ domValid' = FALSE
                 /\ pc' = "raised"
                 /\ err' = [type |-> o, by |-> "is_domain_valid"]
                 /\ log' = log \o <<Ev("domain_start", i), Ev("domain_raise", i)>>
    /\ UNCHANGED <<rows, k, results, formats, i, email, domain_name, ret>>
    /\ UNCHANGED probeVars

\* if domain_name and is_domain_valid(domain_name): if is_email_valid(...)
DomainDecide ==
    /\ pc = "domain_ret"
    /\ IF domValid
       THEN /\ pc' = "resolve"
            /\ i' = i
            /\ log' = Append(log, Ev("probe_start", i))
       ELSE /\ pc' = "for"
            /\ i' = i + 1
            /\ log' = log
    /\ UNCHANGED <<rows, k, results, formats, ret, err>>
    /\ UNCHANGED candVars
    /\ UNCHANGED probeVars

\* ------------------------------------------------------------ is_email_valid
\* except Exception: return False.  closed: smtplib closed the socket itself
\* before raising (OSError while sending or reading).
Except(step, closed) ==
    /\ failedAt' = step
    /\ probeRes' = FALSE
    /\ pc' = "probe_ret"
    /\ sock' = FALSE
    /\ IF sock /\ closed THEN open' = open - 1 ELSE open' = open

\* mx_records = dns.resolver.resolve(domain, 'MX'); mx_records[0].exchange
ProbeResolve ==
    /\ pc = "resolve"
    /\ cmds' = Append(cmds, "resolve")
    /\ \E ok \in BOOLEAN :
         IF ok
         THEN pc' = "connect" /\ UNCHANGED <<sock, open, failedAt, probeRes>>
         ELSE Except("resolve", TRUE)
    /\ UNCHANGED <<rows, k, results, formats, i, code, ret, err, log>>
    /\ UNCHANGED candVars

\* server = smtplib.SMTP(timeout=10); server.connect(mx_record)
ProbeConnect ==
    /\ pc = "connect"
    /\ cmds' = Append(cmds, "connect")
    /\ \E ok \in BOOLEAN :
         IF ok
         THEN /\ pc' = "helo"
              /\ sock' = TRUE
              /\ open' = open + 1
              /\ UNCHANGED <<failedAt, probeRes>>
         ELSE Except("connect", TRUE)
    /\ UNCHANGED <<rows, k, results, formats, i, code, ret, err, log>>
    /\ UNCHANGED candVars

\* server.helo(): the reply code is not looked at
ProbeHelo ==
    /\ pc = "helo"
    /\ cmds' = Append(cmds, "helo")
    /\ \E ok \in BOOLEAN :
         IF ok
         THEN pc' = "mail" /\ UNCHANGED <<sock, open, failedAt, probeRes>>
         ELSE Except("helo", TRUE)
    /\ UNCHANGED <<rows, k, results, formats, i, code, ret, err, log>>
    /\ UNCHANGED candVars

\* server.mail('noreply@datagateway.in'): the reply code is not looked at
ProbeMail ==
    /\ pc = "mail"
    /\ cmds' = Append(cmds, "mail")
    /\ \E ok \in BOOLEAN :
         IF ok
         THEN pc' = "rcpt" /\ UNCHANGED <<sock, open, failedAt, probeRes>>
         ELSE Except("mail", TRUE)
    /\ UNCHANGED <<rows, k, results, formats, i, code, ret, err, log>>
    /\ UNCHANGED candVars

\* code, message = server.rcpt(email)
\* A recipient that is not ASCII makes smtplib raise UnicodeEncodeError while
\* encoding the command: nothing is sent and the socket is left open.
ProbeRcpt ==
    /\ pc = "rcpt"
    /\ cmds' = Append(cmds, "rcpt")
    /\ IF ~IsAsciiStr(email)
       THEN /\ Except("rcpt", FALSE)
            /\ code' = code
       ELSE \/ /\ Except("rcpt", TRUE)
               /\ code' = code
            \/ /\ \E c \in RcptCodes : code' = c
               /\ pc' = "quit"
               /\ UNCHANGED <<sock, open, failedAt, probeRes>>
    /\ UNCHANGED <<rows, k, results, formats, i, ret, err, log>>
    /\ UNCHANGED candVars

\* server.quit(); return code == 250
ProbeQuit ==
    /\ pc = "quit"
    /\ cmds' = Append(cmds, "quit")
    /\ \E ok \in BOOLEAN :
         IF ok
         THEN /\ pc' = "probe_ret"
              /\ sock' = FALSE
              /\ open' = open - 1
              /\ probeRes' = RcptAccepted(code)
              /\ failedAt' = failedAt
         ELSE Except("quit", TRUE)
    /\ UNCHANGED <<rows, k, results, formats, i, code, ret, err, log>>
    /\ UNCHANGED candVars

\* if is_email_valid(email, domain_name): return email, True
\* The SMTP object of the probe is garbage once the probe has returned; a
\* socket it still holds is closed whenever the runtime finalises it.
ProbeDecide ==
    /\ pc = "probe_ret"
    /\ \E collected \in BOOLEAN :
         open' = IF collected /\ failedAt = "rcpt" /\ ~IsAsciiStr(email)
                 THEN open - 1 ELSE open
    /\ IF AfterProbe(probeRes) = "return"
       THEN /\ ret' = <<email, TRUE>>
            /\ pc' = "append"
            /\ i' = i
            /\ log' = Append(log, Ev("probe_true", i))
       ELSE /\ ret' = ret
            /\ pc' = "for"
            /\ i' = i + 1
            /\ log' = Append(log, Ev(IF probeRes THEN "probe_true" ELSE "probe_false", i))
    /\ UNCHANGED <<rows, k, results, formats, cmds, code, sock, failedAt, probeRes, err>>
    /\ UNCHANGED candVars

Next ==
    \/ NextRow
    \/ ReturnFrame
    \/ AppendResult
    \/ GenerateFormats
    \/ NextCandidate
    \/ Exhausted
    \/ is_domain_valid
    \/ DomainDecide
    \/ ProbeResolve
    \/ ProbeConnect
    \/ ProbeHelo
    \/ ProbeMail
    \/ ProbeRcpt
    \/ ProbeQuit
    \/ ProbeDecide

Spec == Init /\ [][Next]_vars

TypeOK ==
    /\ rows \in Frames
    /\ k \in 1..(MaxRows + 1)
    /\ Len(results) = k - 1
    /\ pc \in {"loop", "gen", "for", "domain", "domain_ret", "resolve", "connect",
               "helo", "mail", "rcpt", "quit", "probe_ret", "append", "done", "raised"}
    /\ i \in 0..6
    /\ domValid \in BOOLEAN
    /\ sock \in BOOLEAN
    /\ open \in 0..(5 * MaxRows)
    /\ probeRes \in BOOLEAN

\* ------------------------------------------------------------------ claims
Passed(j) ==
    /\ \E p \in DOMAIN log : log[p] = Ev("domain_true", j)
    /\ \E q \in DOMAIN log : log[q] = Ev("probe_true", j)

\* C1: whenever validate_email_for_formats ends, it has returned: (e, True)
\* with e the earliest candidate that passed both the domain check and the
\* mailbox probe, and (None, False) exactly when no candidate passed both.
C1_RowValidatorReturnsEarliest ==
    pc \in {"append", "raised"} =>
        /\ pc = "append"
        /\ IF \E j \in DOMAIN formats : Passed(j)
           THEN LET j == CHOOSE m \in DOMAIN formats :
                            Passed(m) /\ \A n \in 1..(m - 1) : ~Passed(n)
                IN  ret = <<formats[j], TRUE>>
           ELSE ret = <<None, FALSE>>

\* C2: within one row the candidates are checked in generation order and one
\* at a time: the first thing started is a domain check; a domain check of a
\* later candidate starts only right after an earlier candidate finished and
\* failed; a mailbox probe starts only right after the domain check of the
\* same candidate returned true; every check finishes before anything else
\* starts; nothing starts after a candidate passed both checks.
C2_SequentialInOrder ==
    /\ log # <<>> =>
          /\ log[1].op = "domain_start"
          /\ log[Len(log)].op # "domain_start"
    /\ \A q \in 2..Len(log) :
          LET a == log[q - 1]
              b == log[q]
          IN  /\ a.cand <= b.cand
              /\ a.op \notin {"probe_true", "domain_raise"}
              /\ b.op = "domain_start" =>
                     /\ a.op \in {"domain_false", "probe_false"}
                     /\ a.cand < b.cand
              /\ b.op = "probe_start" => a = Ev("domain_true", b.cand)
              /\ b.op \in {"domain_true", "domain_false", "domain_raise"} =>
                     a = Ev("domain_start", b.cand)
              /\ b.op \in {"probe_true", "probe_false"} =>
                     a = Ev("probe_start", b.cand)

C2_Witness ==
    /\ pc = "append"
    /\ Len(log) = 10
    /\ log[2] = Ev("domain_false", 1)
    /\ log[6] = Ev("probe_false", 2)
    /\ log[10] = Ev("probe_true", 3)

\* C3: is_domain_valid never raises to its caller; for every outcome of the
\* MX lookup it returns a boolean, true only when records were returned.
C3_DomainValidatorNeverRaises ==
    /\ err.by # "is_domain_valid"
    /\ pc = "domain_ret" => domValid = (dns = "MX")

\* C4: once the RCPT reply was received, the probe's result is decided by the
\* reply code alone, whether or not QUIT succeeds.
C4_TeardownKeepsResult ==
    (pc = "probe_ret" /\ code # 0) => probeRes = (code = Accepted)

\* C5: is_email_valid returns true only if resolve, connect, HELO, MAIL FROM
\* and RCPT completed in that order and the RCPT reply code was 250; any other
\* code and any failure at one of these steps gives false; the probe never
\* raises, never issues DATA and never repeats a step.
C5_ProbeTrueOnly250 ==
    /\ err.by # "is_email_valid"
    /\ \A n \in DOMAIN cmds : cmds[n] # "data"
    /\ \A m, n \in DOMAIN cmds : cmds[m] = cmds[n] => m = n
    /\ pc = "probe_ret" =>
        /\ probeRes =>
              /\ Len(cmds) >= 5
              /\ SubSeq(cmds, 1, 5) = <<"resolve", "connect", "helo", "mail", "rcpt">>
              /\ code = Accepted
        /\ code # Accepted => ~probeRes
        /\ failedAt \in {"resolve", "connect", "helo", "mail", "rcpt"} => ~probeRes

C5_Witness ==
    /\ pc = "probe_ret"
    /\ probeRes
    /\ code = Accepted
    /\ cmds = <<"resolve", "connect", "helo", "mail", "rcpt", "quit">>

\* C6: in every output row the Email field is non-null if and only if both
\* Domain Valid and Email Valid are true.
C6_EmailIffBothValid ==
    \A n \in DOMAIN results :
        (results[n][1] # None) <=> (results[n][3] /\ results[n][4])

C6_Witness ==
    /\ Len(results) = 2
    /\ results[1][1] # None
    /\ results[2][1] = None

\* C7: generate_email_formats has no error outcome and returns five strings
\* in the fixed order, each ending in @domain, also for an empty first or last.
C7_FiveFormatsNoError ==
    /\ err.by # "generate_email_formats"
    /\ pc \in {"for", "domain", "domain_ret", "append"} =>
        LET p == rows[k]
            suffix == <<At>> \o p.domain
        IN  /\ Len(formats) = 5
            /\ formats[1] = p.first \o <<".">> \o p.last \o suffix
            /\ formats[2] = p.first \o <<"_">> \o p.last \o suffix
            /\ formats[3] = SubSeq(p.first, 1, 1) \o p.last \o suffix
            /\ formats[4] = p.first \o suffix
            /\ formats[5] = p.last \o suffix

\* C8: extract_domain returns the whole substring after the first '@', later
\* '@' characters included, and None when there is no '@' or nothing after it.
C8_WholeSubstringAfterFirstAt ==
    email # None =>
        LET ats == {n \in DOMAIN email : email[n] = At}
            a == CHOOSE n \in ats : \A m \in ats : n <= m
        IN  IF ats = {} \/ a = Len(email)
            THEN domain_name = None
            ELSE domain_name = SubSeq(email, a + 1, Len(email))

\* C9: validate_emails runs to completion and returns one output row per
\* input row, in input order, with the row's domain and either no email or
\* the lower-cased candidate of that row.
C9_OneRowPerInputInOrder ==
    pc \in {"done", "raised"} =>
        /\ pc = "done"
        /\ Len(results) = Len(rows)
        /\ \A n \in DOMAIN results :
               /\ results[n][2] = rows[n].domain
               /\ \/ results[n][1] = None
                  \/ LET f == generate_email_formats(rows[n].first, rows[n].last,
                                                     rows[n].domain)
                     IN  \E m \in DOMAIN f : results[n][1] = lower(f[m])

\* C10: every SMTP connection a probe opened is closed when the probe
\* returns, so none is open when a probe starts or when the batch ends.
C10_NoConnectionLeftOpen ==
    pc \in {"probe_ret", "resolve", "for", "append", "loop", "done"} => open = 0
====
